---- MODULE Spec2Model ----
(***************************************************************************)
(* Model of example-clic-baremetal.c: main's CLIC configuration sequence,  *)
(* the interrupt handlers, and the CLIC hardware the code programs         *)
(* (vectored dispatch through __mtvt_clic_vector_table).                   *)
(*                                                                         *)
(* One step of main is one C statement; program positions are named after  *)
(* the source line of the statement ("L165" is line 165).  An interrupt    *)
(* that is enabled, pending and unmasked is taken before the interrupted   *)
(* stream executes its next statement.                                     *)
(***************************************************************************)
EXTENDS Integers, Sequences, FiniteSets, TLC

(***************************************************************************)
(* Bounds and target parameters                                            *)
(***************************************************************************)
\* number of interrupt sources of the target (supplied by the BSP); the
\* source uses ids up to 16, so the smallest target has 17
METAL_SIFIVE_CLIC0_2000000_SIFIVE_NUMINTS == 17
\* number of implemented clicintcfg bits of the target (supplied by the BSP)
METAL_SIFIVE_CLIC0_0_SIFIVE_NUMINTBITS == 2
\* the dispatch counters saturate at this value
MaxRuns == 2
\* number of source-control macro calls the application driver may make
MaxOps == 2

(***************************************************************************)
(* Program constants                                                       *)
(***************************************************************************)
DISABLE == 0
ENABLE == 1
MTVEC_MODE_CLIC_DIRECT == 2
MTVEC_MODE_CLIC_VECTORED == 3
INT_ID_SOFTWARE == 3
INT_ID_TIMER == 7
INT_ID_EXTERNAL == 11
INT_ID_CLIC_SOFTWARE == 12
CLIC_VECTOR_TABLE_SIZE_MAX == METAL_SIFIVE_CLIC0_2000000_SIFIVE_NUMINTS

\* addresses the linker assigns; 0 is the content of zero-initialised memory
default_exception_handler == 128
software_handler == 196
clic_software_handler == 200
timer_handler == 204
external_handler == 208
lc0_handler == 212
\* base address of __mtvt_clic_vector_table
mtvt_clic_vector_table == 256

\* the sources software raises: MSIP and the CLIC software interrupt
SwSources == {INT_ID_SOFTWARE, INT_ID_CLIC_SOFTWARE}

\* interrupt source ids of the controller
Ids == 0 .. (CLIC_VECTOR_TABLE_SIZE_MAX - 1)
\* the memory cells of the table and the cell right behind it
Cells == 0 .. CLIC_VECTOR_TABLE_SIZE_MAX

(***************************************************************************)
(* Bit arithmetic on naturals                                              *)
(***************************************************************************)
RECURSIVE BitOr(_, _)
BitOr(a, b) ==
    IF a = 0 THEN b
    ELSE IF b = 0 THEN a
    ELSE (IF (a % 2 = 1) \/ (b % 2 = 1) THEN 1 ELSE 0) + 2 * BitOr(a \div 2, b \div 2)

RECURSIVE Pow2(_)
Pow2(n) == IF n = 0 THEN 1 ELSE 2 * Pow2(n - 1)

\* what a clicintcfg byte holds after v is stored: the core implements the
\* upper METAL_SIFIVE_CLIC0_0_SIFIVE_NUMINTBITS bits, the lower bits read as
\* ones (with 2 bits: 63, 127, 191, 255)
ClicIntCtlStore(v) ==
    BitOr(v % 256, Pow2(8 - METAL_SIFIVE_CLIC0_0_SIFIVE_NUMINTBITS) - 1)

CLICCFG_NVBITS(x) == (x % 2) * 1
\* a variant of CLICCFG_NLBITS that does not shift the field
CLICCFG_NLBITS_NoShift(x) == (x % 16) * 1
CLICCFG_NLBITS(x) == (x % 16) * 2
CLICCFG_NMBITS(x) == (x % 4) * 32

\* CLICCFG_NVBITS(nv) | CLICCFG_NLBITS(nl) | CLICCFG_NMBITS(nm), assigned to
\* the uint8_t cliccfg
CliccfgPack(nv, nl, nm) ==
    BitOr(BitOr(CLICCFG_NVBITS(nv), CLICCFG_NLBITS(nl)), CLICCFG_NMBITS(nm)) % 256

\* (mtvec_base | mode), the operand of write_csr(mtvec, ...)
MtvecValue(mtvec_base, mode) == BitOr(mtvec_base, mode)

\* the alignment of default_exception_handler and __mtvt_clic_vector_table
HANDLER_ALIGN == 64

(***************************************************************************)
(* State                                                                   *)
(***************************************************************************)
VARIABLES
    act,          \* the ACTIVATE_* compile-time options of the build
    pc,           \* [fn, at]: the function and statement the hart is at
    mie,          \* mstatus.MIE
    mil,          \* mintstatus.mil, the level of the running handler (0: none)
    mepc,         \* mepc CSR: the interrupted position
    mcause,       \* mcause CSR: [intr, id, mpil, mpie]
    mtval,        \* mtval CSR
    stack,        \* (mepc, mcause) frames saved by preemptible prologues
    mtvec,        \* mtvec CSR (-1: not programmed)
    mtvt,         \* mtvt CSR, number 0x307 (-1: not programmed)
    vt,           \* __mtvt_clic_vector_table and the cell behind it
    cliccfg_reg,  \* the byte at HART0_CLICCFG_ADDR
    clicintctl,   \* the bytes at HART0_CLICINTCFG_ADDR(id)
    clicintie,    \* the bytes at HART0_CLICINTIE_ADDR(id)
    clicintip,    \* the bytes at HART0_CLICINTIP_ADDR(id)
    msip,         \* the word at MSIP_BASE_ADDR(hart)
    timer_expired,\* mtime >= mtimecmp
    i,            \* main's loop counter / source id local
    cliccfg,      \* main's local cliccfg
    clicintcfg,   \* main's local clicintcfg
    writes,       \* history: the configuration writes, in order
    runs,         \* history: dispatches of each software-triggered source
                  \* (saturating at MaxRuns)
    last_ie_op,   \* history: per source, the last enable-byte operation
    int_pc,       \* history: position of main when it was last interrupted
    ops,          \* number of driver macro calls made
    fault,        \* default_exception_handler's locals mcause, mepc, mtval, code
    call          \* history: the last operation applied to the registers

hw == <<mie, mil, mepc, mcause, stack>>
csrs == <<mtvec, mtvt>>
clic == <<cliccfg_reg, clicintctl, clicintie, clicintip, msip, timer_expired>>
locals == <<i, cliccfg, clicintcfg>>
hist == <<writes, runs, last_ie_op, int_pc>>
aux == <<mtval, fault, call>>
vars == <<act, pc, mie, mil, mepc, mcause, stack, mtvec, mtvt, vt,
          cliccfg_reg, clicintctl, clicintie, clicintip, msip, timer_expired,
          i, cliccfg, clicintcfg, writes, runs, last_ie_op, int_pc, ops,
          mtval, fault, call>>

Options == {"SOFTWARE", "CLIC_SOFTWARE", "TIMER", "EXTERNAL", "NESTED", "LOCAL_EXT"}

\* the options as shipped
ShippedOptions == [o \in Options |-> o = "LOCAL_EXT"]

Main(l) == [fn |-> "main", at |-> l]

\* default_exception_handler's locals before it has run
NoFault ==
    [mcause |-> [intr |-> FALSE, id |-> 0, mpil |-> 0, mpie |-> FALSE],
     mepc |-> Main("L159"), mtval |-> 0, code |-> 0]

\* no operation applied yet
NoCall == [op |-> "none"]

Init ==
    /\ act \in [Options -> BOOLEAN]
    /\ pc = Main("L159")
    /\ mie \in BOOLEAN
    /\ mil = 0
    /\ mepc = Main("L159")
    /\ mcause = [intr |-> FALSE, id |-> 0, mpil |-> 0, mpie |-> FALSE]
    /\ mtval = 0
    /\ stack = <<>>
    /\ mtvec = -1
    /\ mtvt = -1
    /\ vt = [c \in Cells |-> 0]
    /\ cliccfg_reg = 0
    /\ clicintctl = [id \in Ids |-> ClicIntCtlStore(0)]
    /\ clicintie = [id \in Ids |-> 0]
    /\ clicintip = [id \in Ids |-> 0]
    /\ msip = 0
    /\ timer_expired = FALSE
    /\ i = 0
    /\ cliccfg = 0
    /\ clicintcfg = 0
    /\ writes = <<>>
    /\ runs = [id \in SwSources |-> 0]
    /\ last_ie_op = [id \in Ids |-> "none"]
    /\ int_pc = Main("L159")
    /\ ops = 0
    /\ fault = NoFault
    /\ call = NoCall

(***************************************************************************)
(* Register access layer                                                   *)
(***************************************************************************)
\* a variant of write_byte that ors the data into the byte
write_byte_OrsIn(mem, idx, data) == [mem EXCEPT ![idx] = BitOr(@, data % 256)]
\* a variant of write_byte that adds the data to the byte
write_byte_Adds(mem, idx, data) == [mem EXCEPT ![idx] = (@ + data) % 256]
\* write_byte(addr, data): a uint8_t store into the byte array mem at idx
write_byte(mem, idx, data) == [mem EXCEPT ![idx] = data % 256]
\* read_byte(addr)
read_byte(mem, idx) == mem[idx]

\* write_byte(HART0_CLICINTCFG_ADDR(id), data)
ClicIntCtlWrite(mem, id, data) ==
    [mem EXCEPT ![id] = ClicIntCtlStore(write_byte(mem, id, data)[id])]

\* the source-control macros, as functions of the enable / pending bytes
SOFTWARE_INT_ENABLE(ie) == write_byte(ie, INT_ID_SOFTWARE, ENABLE)
SOFTWARE_INT_DISABLE(ie) == write_byte(ie, INT_ID_SOFTWARE, DISABLE)
TIMER_INT_ENABLE(ie) == write_byte(ie, INT_ID_TIMER, ENABLE)
\* a variant of TIMER_INT_DISABLE that writes ENABLE
TIMER_INT_DISABLE_WritesEnable(ie) == write_byte(ie, INT_ID_TIMER, ENABLE)
TIMER_INT_DISABLE(ie) == write_byte(ie, INT_ID_TIMER, DISABLE)
EXTERNAL_INT_ENABLE(ie) == write_byte(ie, INT_ID_EXTERNAL, ENABLE)
EXTERNAL_INT_EDISABLE(ie) == write_byte(ie, INT_ID_EXTERNAL, DISABLE)
CLIC_SOFTWARE_INT_ENABLE(ie) == write_byte(ie, INT_ID_CLIC_SOFTWARE, ENABLE)
CLIC_SOFTWARE_INT_DISABLE(ie) == write_byte(ie, INT_ID_CLIC_SOFTWARE, DISABLE)
CLIC_SOFTWARE_INT_SET(ip) == write_byte(ip, INT_ID_CLIC_SOFTWARE, ENABLE)
CLIC_SOFTWARE_INT_CLEAR(ip) == write_byte(ip, INT_ID_CLIC_SOFTWARE, DISABLE)

\* one entry of the history of configuration writes
Wr(reg, idx, val) == [reg |-> reg, idx |-> idx, val |-> val, mie |-> mie, fn |-> pc.fn]

(***************************************************************************)
(* The controller: selection of the interrupt to take                      *)
(***************************************************************************)
Enabled(id) == clicintie[id] % 2 = 1

Pending(id) ==
    IF id = INT_ID_SOFTWARE THEN msip % 2 = 1
    ELSE IF id = INT_ID_TIMER THEN timer_expired
    ELSE clicintip[id] % 2 = 1

\* cliccfg.NLBITS, bits 4:1 of the configuration byte
NLBITS == (cliccfg_reg \div 2) % 16

\* the level encoded by control byte ctl when nl bits encode the level:
\* the upper nl bits, the lower bits read as ones (nl = 0: level 255)
LevelOf(ctl, nl) ==
    LET k == IF nl > 8 THEN 0 ELSE 8 - nl
    IN  (ctl \div Pow2(k)) * Pow2(k) + (Pow2(k) - 1)

Level(id) == LevelOf(clicintctl[id], NLBITS)

Candidates == {id \in Ids : Enabled(id) /\ Pending(id)}

\* a is taken before b: higher level/priority byte first, then the
\* highest-numbered interrupt id
Beats(a, b) ==
    \/ clicintctl[a] > clicintctl[b]
    \/ clicintctl[a] = clicintctl[b] /\ a >= b

Selected == CHOOSE a \in Candidates : \A b \in Candidates : Beats(a, b)

\* an interrupt is taken when mstatus.MIE is set and the selected source's
\* level exceeds the level of the running handler
InterruptReady ==
    /\ mie
    /\ Candidates # {}
    /\ Level(Selected) > mil

\* the function at a code address
FnAt(addr) ==
    IF addr = default_exception_handler THEN "default_exception_handler"
    ELSE IF addr = software_handler THEN "software_handler"
    ELSE IF addr = clic_software_handler THEN "clic_software_handler"
    ELSE IF addr = timer_handler THEN "timer_handler"
    ELSE IF addr = external_handler THEN "external_handler"
    ELSE IF addr = lc0_handler THEN "lc0_handler"
    ELSE "wild"

Bump(n) == IF n < MaxRuns THEN n + 1 ELSE n

\* a variant of Dispatch that leaves mintstatus.mil at the interrupted level
Dispatch_KeepsLevel ==
    /\ InterruptReady
    /\ LET id == Selected
           target == IF mtvt = mtvt_clic_vector_table THEN vt[id] ELSE 0
       IN  /\ mepc' = pc
           /\ mcause' = [intr |-> TRUE, id |-> id, mpil |-> mil, mpie |-> mie]
           /\ mil' = mil
           /\ mie' = FALSE
           /\ pc' = [fn |-> FnAt(target), at |-> "entry"]
           /\ runs' = IF id \in SwSources THEN [runs EXCEPT ![id] = Bump(@)] ELSE runs
           /\ int_pc' = IF pc.fn = "main" THEN pc ELSE int_pc
    /\ UNCHANGED <<act, aux, stack, csrs, vt, clic, locals, writes, last_ie_op, ops>>

\* hardware vectoring: the hart fetches the handler address from the table
\* mtvt points to and jumps to it
Dispatch ==
    /\ InterruptReady
    /\ LET id == Selected
           target == IF mtvt = mtvt_clic_vector_table THEN vt[id] ELSE 0
       IN  /\ mepc' = pc
           /\ mcause' = [intr |-> TRUE, id |-> id, mpil |-> mil, mpie |-> mie]
           /\ mil' = Level(id)
           /\ mie' = FALSE
           /\ pc' = [fn |-> FnAt(target), at |-> "entry"]
           /\ runs' = IF id \in SwSources THEN [runs EXCEPT ![id] = Bump(@)] ELSE runs
           /\ int_pc' = IF pc.fn = "main" THEN pc ELSE int_pc
    /\ UNCHANGED <<act, aux, stack, csrs, vt, clic, locals, writes, last_ie_op, ops>>

(***************************************************************************)
(* The environment: interrupt lines and the timer                          *)
(***************************************************************************)
\* sources whose pending bit follows a hardware line
ExtLines == {INT_ID_EXTERNAL, 16}

ExtRaise(id) ==
    /\ clicintip[id] = 0
    /\ clicintip' = [clicintip EXCEPT ![id] = 1]
    /\ UNCHANGED <<act, aux, pc, hw, csrs, vt, cliccfg_reg, clicintctl, clicintie,
                   msip, timer_expired, locals, hist, ops>>

ExtLower(id) ==
    /\ clicintip[id] = 1
    /\ clicintip' = [clicintip EXCEPT ![id] = 0]
    /\ UNCHANGED <<act, aux, pc, hw, csrs, vt, cliccfg_reg, clicintctl, clicintie,
                   msip, timer_expired, locals, hist, ops>>

\* mtime reaches mtimecmp
TimerExpire ==
    /\ ~timer_expired
    /\ timer_expired' = TRUE
    /\ UNCHANGED <<act, aux, pc, hw, csrs, vt, cliccfg_reg, clicintctl, clicintie,
                   clicintip, msip, locals, hist, ops>>

Env ==
    \/ \E id \in ExtLines : ExtRaise(id)
    \/ \E id \in ExtLines : ExtLower(id)
    \/ TimerExpire

(***************************************************************************)
(* main: control flow                                                      *)
(***************************************************************************)
\* a variant of MainSeq that fills the table before programming mtvec/mtvt
MainSeq_ResetFirst ==
    << "L159", "L171", "L173", "L165", "L169", "L181", "L182", "L207",
       "L216", "L217", "L218",
       "L223", "L224", "L225",
       "L230", "L231", "L232",
       "L237", "L238", "L241", "L242",
       "L247", "L248", "L249",
       "L261", "L263", "L265", "L267",
       "L280", "L284", "L289", "L292", "L294" >>

\* a variant of MainSeq that enables source 16 before writing its control
\* byte
MainSeq_EnableFirst ==
    << "L159", "L165", "L169", "L171", "L173", "L181", "L182", "L207",
       "L216", "L217", "L218",
       "L223", "L224", "L225",
       "L230", "L231", "L232",
       "L237", "L238", "L241", "L242",
       "L247", "L248", "L249",
       "L261", "L267", "L265", "L263",
       "L280", "L284", "L289", "L292", "L294" >>

\* a variant of MainSeq that sets the level bits after arming the sources
MainSeq_NestedLate ==
    << "L159", "L165", "L169", "L171", "L173", "L181", "L182", "L207",
       "L223", "L224", "L225",
       "L230", "L231", "L232",
       "L237", "L238", "L241", "L242",
       "L247", "L248", "L249",
       "L261", "L263", "L265", "L267",
       "L216", "L217", "L218",
       "L280", "L284", "L289", "L292", "L294" >>

\* the statements of main in program order
\* a variant of MainSeq that writes cliccfg before mtvec and mtvt
MainSeq_GlobalFirst ==
    << "L159", "L181", "L182", "L165", "L169", "L171", "L173", "L207",
       "L216", "L217", "L218",
       "L223", "L224", "L225",
       "L230", "L231", "L232",
       "L237", "L238", "L241", "L242",
       "L247", "L248", "L249",
       "L261", "L263", "L265", "L267",
       "L280", "L284", "L289", "L292", "L294" >>
MainSeq ==
    << "L159", "L165", "L169", "L171", "L173", "L181", "L182", "L207",
       "L216", "L217", "L218",
       "L223", "L224", "L225",
       "L230", "L231", "L232",
       "L237", "L238", "L241", "L242",
       "L247", "L248", "L249",
       "L261", "L263", "L265", "L267",
       "L280", "L284", "L289", "L292", "L294" >>

\* the #if a statement is under ("" when unconditional)
OptionOf(l) ==
    IF l \in {"L216", "L217", "L218"} THEN "NESTED"
    ELSE IF l \in {"L223", "L224", "L225", "L284"} THEN "SOFTWARE"
    ELSE IF l \in {"L230", "L231", "L232", "L289"} THEN "CLIC_SOFTWARE"
    ELSE IF l \in {"L237", "L238", "L241", "L242"} THEN "TIMER"
    ELSE IF l \in {"L247", "L248", "L249"} THEN "EXTERNAL"
    ELSE IF l \in {"L261", "L263", "L265", "L267"} THEN "LOCAL_EXT"
    ELSE ""

Compiled(l) == OptionOf(l) = "" \/ act[OptionOf(l)]

IndexOf(l) == CHOOSE k \in 1 .. Len(MainSeq) : MainSeq[k] = l

\* the statement that follows l in this build
After(l) ==
    LET later == {k \in (IndexOf(l) + 1) .. Len(MainSeq) : Compiled(MainSeq[k])}
    IN  MainSeq[CHOOSE k \in later : \A m \in later : k <= m]

\* main is at statement l and no interrupt is taken first
At(l) == pc = Main(l) /\ ~InterruptReady

(***************************************************************************)
(* main: the statements                                                    *)
(***************************************************************************)
\* csrrc mstatus, MIE
interrupt_global_disable == mie' = FALSE
\* csrrs mstatus, MIE
interrupt_global_enable == mie' = TRUE

\* a variant of Main_L159 that leaves mstatus.MIE as it is
Main_L159_NoDisable ==
    /\ At("L159")
    /\ pc' = Main(After("L159"))
    /\ UNCHANGED <<act, aux, hw, csrs, vt, clic, locals, hist, ops>>

Main_L159 ==
    /\ At("L159")
    /\ interrupt_global_disable
    /\ pc' = Main(After("L159"))
    /\ UNCHANGED <<act, aux, mil, mepc, mcause, stack, csrs, vt, clic, locals, hist, ops>>

\* a variant of Main_L165 that does not program mtvec
Main_L165_NoMtvec ==
    /\ At("L165")
    /\ pc' = Main(After("L165"))
    /\ UNCHANGED <<act, aux, hw, csrs, vt, clic, locals, hist, ops>>

\* mtvec_base = &default_exception_handler; write_csr(mtvec, mtvec_base | mode)
Main_L165 ==
    /\ At("L165")
    /\ mtvec' = MtvecValue(default_exception_handler, MTVEC_MODE_CLIC_VECTORED)
    /\ writes' = Append(writes, Wr("mtvec", 0, mtvec'))
    /\ pc' = Main(After("L165"))
    /\ UNCHANGED <<act, aux, hw, mtvt, vt, clic, locals, runs, last_ie_op, int_pc, ops>>

\* a variant of Main_L169 that writes the table base to the wrong CSR
Main_L169_NoMtvt ==
    /\ At("L169")
    /\ mtvec' = mtvt_clic_vector_table
    /\ writes' = Append(writes, Wr("mtvec", 0, mtvec'))
    /\ pc' = Main(After("L169"))
    /\ UNCHANGED <<act, aux, hw, mtvt, vt, clic, locals, runs, last_ie_op, int_pc, ops>>

\* mtvt_base = &__mtvt_clic_vector_table; write_csr(0x307, mtvt_base)
Main_L169 ==
    /\ At("L169")
    /\ mtvt' = mtvt_clic_vector_table
    /\ writes' = Append(writes, Wr("mtvt", 0, mtvt'))
    /\ pc' = Main(After("L169"))
    /\ UNCHANGED <<act, aux, hw, mtvec, vt, clic, locals, runs, last_ie_op, int_pc, ops>>

\* for (int i = 0; i < CLIC_VECTOR_TABLE_SIZE_MAX; ...
Main_L171 ==
    /\ At("L171")
    /\ i' = 0
    /\ pc' = IF i' < CLIC_VECTOR_TABLE_SIZE_MAX THEN Main("L173") ELSE Main(After("L173"))
    /\ UNCHANGED <<act, aux, hw, csrs, vt, clic, cliccfg, clicintcfg, hist, ops>>

\* a variant of Main_L173 whose loop test is i <= CLIC_VECTOR_TABLE_SIZE_MAX
Main_L173_OffByOne ==
    /\ At("L173")
    /\ vt' = [vt EXCEPT ![i] = default_exception_handler]
    /\ writes' = Append(writes, Wr("vt", i, default_exception_handler))
    /\ i' = i + 1
    /\ pc' = IF i' <= CLIC_VECTOR_TABLE_SIZE_MAX THEN Main("L173") ELSE Main(After("L173"))
    /\ UNCHANGED <<act, aux, hw, csrs, clic, cliccfg, clicintcfg, runs, last_ie_op, int_pc, ops>>

\* __mtvt_clic_vector_table[i] = &default_exception_handler; i++; i < SIZE?
Main_L173 ==
    /\ At("L173")
    /\ vt' = [vt EXCEPT ![i] = default_exception_handler]
    /\ writes' = Append(writes, Wr("vt", i, default_exception_handler))
    /\ i' = i + 1
    /\ pc' = IF i' < CLIC_VECTOR_TABLE_SIZE_MAX THEN Main("L173") ELSE Main(After("L173"))
    /\ UNCHANGED <<act, aux, hw, csrs, clic, cliccfg, clicintcfg, runs, last_ie_op, int_pc, ops>>

\* cliccfg = CLICCFG_NVBITS(0) | CLICCFG_NLBITS(0) | CLICCFG_NMBITS(0)
Main_L181 ==
    /\ At("L181")
    /\ cliccfg' = CliccfgPack(0, 0, 0)
    /\ pc' = Main(After("L181"))
    /\ UNCHANGED <<act, aux, hw, csrs, vt, clic, i, clicintcfg, hist, ops>>

\* write_byte(HART0_CLICCFG_ADDR, cliccfg)
Main_L182 ==
    /\ At("L182")
    /\ cliccfg_reg' = cliccfg % 256
    /\ writes' = Append(writes, Wr("cliccfg", 0, cliccfg_reg'))
    /\ pc' = Main(After("L182"))
    /\ UNCHANGED <<act, aux, hw, csrs, vt, clicintctl, clicintie, clicintip, msip,
                   timer_expired, locals, runs, last_ie_op, int_pc, ops>>

\* clicintcfg = 255
Main_L207 ==
    /\ At("L207")
    /\ clicintcfg' = 255
    /\ pc' = Main(After("L207"))
    /\ UNCHANGED <<act, aux, hw, csrs, vt, clic, i, cliccfg, hist, ops>>

\* cliccfg = read_byte(HART0_CLICCFG_ADDR)
Main_L216 ==
    /\ At("L216")
    /\ cliccfg' = cliccfg_reg
    /\ pc' = Main(After("L216"))
    /\ UNCHANGED <<act, aux, hw, csrs, vt, clic, i, clicintcfg, hist, ops>>

\* cliccfg |= CLICCFG_NLBITS(METAL_SIFIVE_CLIC0_0_SIFIVE_NUMINTBITS)
Main_L217 ==
    /\ At("L217")
    /\ cliccfg' = BitOr(cliccfg, CLICCFG_NLBITS(METAL_SIFIVE_CLIC0_0_SIFIVE_NUMINTBITS)) % 256
    /\ pc' = Main(After("L217"))
    /\ UNCHANGED <<act, aux, hw, csrs, vt, clic, i, clicintcfg, hist, ops>>

\* a variant of Main_L218 that drops the store
Main_L218_NoWrite ==
    /\ At("L218")
    /\ pc' = Main(After("L218"))
    /\ UNCHANGED <<act, aux, hw, csrs, vt, clic, locals, hist, ops>>

\* write_byte(HART0_CLICCFG_ADDR, cliccfg)
Main_L218 ==
    /\ At("L218")
    /\ cliccfg_reg' = cliccfg % 256
    /\ writes' = Append(writes, Wr("cliccfg", 0, cliccfg_reg'))
    /\ pc' = Main(After("L218"))
    /\ UNCHANGED <<act, aux, hw, csrs, vt, clicintctl, clicintie, clicintip, msip,
                   timer_expired, locals, runs, last_ie_op, int_pc, ops>>

\* __mtvt_clic_vector_table[id] = &handler, at statement l
Install(l, id, handler) ==
    /\ At(l)
    /\ vt' = [vt EXCEPT ![id] = handler]
    /\ writes' = Append(writes, Wr("vt", id, handler))
    /\ pc' = Main(After(l))
    /\ UNCHANGED <<act, aux, hw, csrs, clic, locals, runs, last_ie_op, int_pc, ops>>

\* write_byte(HART0_CLICINTCFG_ADDR(id), data), at statement l
SetLevelPriority(l, id, data) ==
    /\ At(l)
    /\ clicintctl' = ClicIntCtlWrite(clicintctl, id, data)
    /\ writes' = Append(writes, Wr("clicintctl", id, clicintctl'[id]))
    /\ pc' = Main(After(l))
    /\ UNCHANGED <<act, aux, hw, csrs, vt, cliccfg_reg, clicintie, clicintip, msip,
                   timer_expired, locals, runs, last_ie_op, int_pc, ops>>

\* a write of the enable bytes at statement l: ie is the new content, id the
\* source written and op the operation the statement stands for
SetEnable(l, id, ie, op) ==
    /\ At(l)
    /\ clicintie' = ie
    /\ writes' = Append(writes, Wr("clicintie", id, ie[id]))
    /\ last_ie_op' = [last_ie_op EXCEPT ![id] = op]
    /\ pc' = Main(After(l))
    /\ UNCHANGED <<act, aux, hw, csrs, vt, cliccfg_reg, clicintctl, clicintip, msip,
                   timer_expired, locals, runs, int_pc, ops>>

\* a variant of Main_L223 that stores the handler into the neighbouring slot
Main_L223_WrongSlot == Install("L223", INT_ID_SOFTWARE + 1, software_handler)
Main_L223 == Install("L223", INT_ID_SOFTWARE, software_handler)
Main_L224 == SetLevelPriority("L224", INT_ID_SOFTWARE, clicintcfg)
Main_L225 == SetEnable("L225", INT_ID_SOFTWARE, SOFTWARE_INT_ENABLE(clicintie), "enable")

Main_L230 == Install("L230", INT_ID_CLIC_SOFTWARE, clic_software_handler)
Main_L231 == SetLevelPriority("L231", INT_ID_CLIC_SOFTWARE, clicintcfg)
Main_L232 == SetEnable("L232", INT_ID_CLIC_SOFTWARE, CLIC_SOFTWARE_INT_ENABLE(clicintie), "enable")

Main_L237 == Install("L237", INT_ID_TIMER, timer_handler)
Main_L238 == SetLevelPriority("L238", INT_ID_TIMER, clicintcfg)

\* SET_TIMER_INTERVAL_MS(DEMO_TIMER_INTERVAL): mtimecmp = mtime + 5000 * 32,
\* so mtime < mtimecmp until the interval has elapsed
Main_L241 ==
    /\ At("L241")
    /\ timer_expired' = FALSE
    /\ pc' = Main(After("L241"))
    /\ UNCHANGED <<act, aux, hw, csrs, vt, cliccfg_reg, clicintctl, clicintie,
                   clicintip, msip, locals, hist, ops>>

Main_L242 == SetEnable("L242", INT_ID_TIMER, TIMER_INT_ENABLE(clicintie), "enable")

Main_L247 == Install("L247", INT_ID_EXTERNAL, external_handler)
Main_L248 == SetLevelPriority("L248", INT_ID_EXTERNAL, clicintcfg)
\* a variant of Main_L249 that enables the timer source instead
Main_L249_EnablesTimer == SetEnable("L249", INT_ID_TIMER, TIMER_INT_ENABLE(clicintie), "enable")
Main_L249 == SetEnable("L249", INT_ID_EXTERNAL, EXTERNAL_INT_ENABLE(clicintie), "enable")

\* i = 16
Main_L261 ==
    /\ At("L261")
    /\ i' = 16
    /\ pc' = Main(After("L261"))
    /\ UNCHANGED <<act, aux, hw, csrs, vt, clic, cliccfg, clicintcfg, hist, ops>>

\* a variant of Main_L263 that gives source 16 a lower priority
Main_L263_LowPriority == SetLevelPriority("L263", i, 127)
Main_L263 == SetLevelPriority("L263", i, 255)
Main_L265 == Install("L265", i, lc0_handler)
Main_L267 == SetEnable("L267", i, write_byte(clicintie, i, ENABLE), "enable")

Main_L280 ==
    /\ At("L280")
    /\ interrupt_global_enable
    /\ pc' = Main(After("L280"))
    /\ UNCHANGED <<act, aux, mil, mepc, mcause, stack, csrs, vt, clic, locals, hist, ops>>

\* write_word(MSIP_BASE_ADDR(hart), 0x1)
Main_L284 ==
    /\ At("L284")
    /\ msip' = 1
    /\ pc' = Main(After("L284"))
    /\ UNCHANGED <<act, aux, hw, csrs, vt, cliccfg_reg, clicintctl, clicintie,
                   clicintip, timer_expired, locals, hist, ops>>

\* CLIC_SOFTWARE_INT_SET
Main_L289 ==
    /\ At("L289")
    /\ clicintip' = CLIC_SOFTWARE_INT_SET(clicintip)
    /\ pc' = Main(After("L289"))
    /\ UNCHANGED <<act, aux, hw, csrs, vt, cliccfg_reg, clicintctl, clicintie,
                   msip, timer_expired, locals, hist, ops>>

\* while (1)
Main_L292 ==
    /\ At("L292")
    /\ pc' = Main("L294")
    /\ UNCHANGED <<act, aux, hw, csrs, vt, clic, locals, hist, ops>>

\* wfi, then back to the loop test
Main_L294 ==
    /\ At("L294")
    /\ pc' = Main("L292")
    /\ UNCHANGED <<act, aux, hw, csrs, vt, clic, locals, hist, ops>>

MainStep ==
    \/ Main_L159 \/ Main_L165 \/ Main_L169 \/ Main_L171 \/ Main_L173
    \/ Main_L181 \/ Main_L182 \/ Main_L207
    \/ Main_L216 \/ Main_L217 \/ Main_L218
    \/ Main_L223 \/ Main_L224 \/ Main_L225
    \/ Main_L230 \/ Main_L231 \/ Main_L232
    \/ Main_L237 \/ Main_L238 \/ Main_L241 \/ Main_L242
    \/ Main_L247 \/ Main_L248 \/ Main_L249
    \/ Main_L261 \/ Main_L263 \/ Main_L265 \/ Main_L267
    \/ Main_L280 \/ Main_L284 \/ Main_L289 \/ Main_L292 \/ Main_L294

(***************************************************************************)
(* The interrupt handlers                                                  *)
(***************************************************************************)
\* the handlers declared interrupt("SiFive-CLIC-preemptible")
Preemptible ==
    {"software_handler", "clic_software_handler", "timer_handler",
     "external_handler", "lc0_handler"}

\* the first statement of a handler's body ("exit" when the body is empty)
BodyOf(fn) ==
    IF fn = "software_handler" THEN "L315"
    ELSE IF fn = "timer_handler" THEN "L324"
    ELSE IF fn = "clic_software_handler" THEN "L333"
    ELSE "exit"

InHandler(l) == pc.fn \in Preemptible /\ pc.at = l /\ ~InterruptReady

\* prologue of a preemptible handler: save mepc and mcause, then set
\* mstatus.MIE so that a higher level can preempt
Prologue ==
    /\ InHandler("entry")
    /\ stack' = Append(stack, [mepc |-> mepc, mcause |-> mcause])
    /\ mie' = TRUE
    /\ pc' = [pc EXCEPT !.at = BodyOf(pc.fn)]
    /\ UNCHANGED <<act, aux, mil, mepc, mcause, csrs, vt, clic, locals, hist, ops>>

\* write_word(MSIP_BASE_ADDR(hart), 0x0)
software_handler_L315 ==
    /\ pc.fn = "software_handler"
    /\ InHandler("L315")
    /\ msip' = 0
    /\ pc' = [pc EXCEPT !.at = "exit"]
    /\ UNCHANGED <<act, aux, hw, csrs, vt, cliccfg_reg, clicintctl, clicintie,
                   clicintip, timer_expired, locals, hist, ops>>

\* a variant of timer_handler_L324 that sets the next timer instead
timer_handler_L324_Rearms ==
    /\ pc.fn = "timer_handler"
    /\ InHandler("L324")
    /\ timer_expired' = FALSE
    /\ pc' = [pc EXCEPT !.at = "exit"]
    /\ UNCHANGED <<act, aux, hw, csrs, vt, cliccfg_reg, clicintctl, clicintie,
                   clicintip, msip, locals, hist, ops>>

\* TIMER_INT_DISABLE
timer_handler_L324 ==
    /\ pc.fn = "timer_handler"
    /\ InHandler("L324")
    /\ clicintie' = TIMER_INT_DISABLE(clicintie)
    /\ writes' = Append(writes, Wr("clicintie", INT_ID_TIMER, clicintie'[INT_ID_TIMER]))
    /\ last_ie_op' = [last_ie_op EXCEPT ![INT_ID_TIMER] = "disable"]
    /\ pc' = [pc EXCEPT !.at = "exit"]
    /\ UNCHANGED <<act, aux, hw, csrs, vt, cliccfg_reg, clicintctl, clicintip, msip,
                   timer_expired, locals, runs, int_pc, ops>>

\* a variant of clic_software_handler_L333 that leaves the pending bit set
clic_software_handler_L333_NoClear ==
    /\ pc.fn = "clic_software_handler"
    /\ InHandler("L333")
    /\ pc' = [pc EXCEPT !.at = "exit"]
    /\ UNCHANGED <<act, aux, hw, csrs, vt, clic, locals, hist, ops>>

\* CLIC_SOFTWARE_INT_CLEAR
clic_software_handler_L333 ==
    /\ pc.fn = "clic_software_handler"
    /\ InHandler("L333")
    /\ clicintip' = CLIC_SOFTWARE_INT_CLEAR(clicintip)
    /\ pc' = [pc EXCEPT !.at = "exit"]
    /\ UNCHANGED <<act, aux, hw, csrs, vt, cliccfg_reg, clicintctl, clicintie,
                   msip, timer_expired, locals, hist, ops>>

\* epilogue of a preemptible handler: clear mstatus.MIE, restore mcause and
\* mepc
Epilogue ==
    /\ InHandler("exit")
    /\ stack # <<>>
    /\ mie' = FALSE
    /\ mepc' = stack[Len(stack)].mepc
    /\ mcause' = stack[Len(stack)].mcause
    /\ stack' = SubSeq(stack, 1, Len(stack) - 1)
    /\ pc' = [pc EXCEPT !.at = "mret"]
    /\ UNCHANGED <<act, aux, mil, csrs, vt, clic, locals, hist, ops>>

\* mret: resume at mepc with the previous interrupt level and enable
Mret ==
    /\ pc.fn \in Preemptible
    /\ pc.at = "mret"
    /\ pc' = mepc
    /\ mie' = mcause.mpie
    /\ mil' = mcause.mpil
    /\ UNCHANGED <<act, aux, mepc, mcause, stack, csrs, vt, clic, locals, hist, ops>>

HandlerStep ==
    \/ Prologue
    \/ software_handler_L315
    \/ timer_handler_L324
    \/ clic_software_handler_L333
    \/ Epilogue
    \/ Mret

(***************************************************************************)
(* The program on its hardware                                             *)
(***************************************************************************)
Next ==
    \/ MainStep
    \/ HandlerStep
    \/ Dispatch
    \/ Env

Spec == Init /\ [][Next]_vars

\* the hart keeps executing; the environment owes nothing
FairSpec == Spec /\ WF_vars(MainStep \/ HandlerStep \/ Dispatch)

TypeOK ==
    /\ pc.fn \in Preemptible \cup {"main", "default_exception_handler", "wild"}
    /\ mie \in BOOLEAN
    /\ mil \in 0 .. 255
    /\ \A id \in Ids : clicintie[id] \in 0 .. 255 /\ clicintctl[id] \in 0 .. 255
    /\ cliccfg_reg \in 0 .. 255
    /\ Len(stack) <= 1

(***************************************************************************)
(* The source-control macros in use: an application that calls them from   *)
(* main's idle loop, for the sources its build has armed                   *)
(***************************************************************************)
\* a macro call that writes the enable bytes
DriverEnableOp(opt, id, ie, op) ==
    /\ At("L292")
    /\ act[opt]
    /\ ops < MaxOps
    /\ ops' = ops + 1
    /\ clicintie' = ie
    /\ writes' = Append(writes, Wr("clicintie", id, ie[id]))
    /\ last_ie_op' = [last_ie_op EXCEPT ![id] = op]
    /\ UNCHANGED <<act, aux, pc, hw, csrs, vt, cliccfg_reg, clicintctl, clicintip,
                   msip, timer_expired, locals, runs, int_pc>>

\* a macro call that writes the pending bytes
DriverPendingOp(opt, ip) ==
    /\ At("L292")
    /\ act[opt]
    /\ ops < MaxOps
    /\ ops' = ops + 1
    /\ clicintip' = ip
    /\ UNCHANGED <<act, aux, pc, hw, csrs, vt, cliccfg_reg, clicintctl, clicintie,
                   msip, timer_expired, locals, hist>>

Call_SOFTWARE_INT_ENABLE ==
    DriverEnableOp("SOFTWARE", INT_ID_SOFTWARE, SOFTWARE_INT_ENABLE(clicintie), "enable")
Call_SOFTWARE_INT_DISABLE ==
    DriverEnableOp("SOFTWARE", INT_ID_SOFTWARE, SOFTWARE_INT_DISABLE(clicintie), "disable")
Call_TIMER_INT_ENABLE ==
    DriverEnableOp("TIMER", INT_ID_TIMER, TIMER_INT_ENABLE(clicintie), "enable")
Call_TIMER_INT_DISABLE ==
    DriverEnableOp("TIMER", INT_ID_TIMER, TIMER_INT_DISABLE(clicintie), "disable")
Call_EXTERNAL_INT_ENABLE ==
    DriverEnableOp("EXTERNAL", INT_ID_EXTERNAL, EXTERNAL_INT_ENABLE(clicintie), "enable")
Call_EXTERNAL_INT_EDISABLE ==
    DriverEnableOp("EXTERNAL", INT_ID_EXTERNAL, EXTERNAL_INT_EDISABLE(clicintie), "disable")
Call_CLIC_SOFTWARE_INT_ENABLE ==
    DriverEnableOp("CLIC_SOFTWARE", INT_ID_CLIC_SOFTWARE, CLIC_SOFTWARE_INT_ENABLE(clicintie), "enable")
Call_CLIC_SOFTWARE_INT_DISABLE ==
    DriverEnableOp("CLIC_SOFTWARE", INT_ID_CLIC_SOFTWARE, CLIC_SOFTWARE_INT_DISABLE(clicintie), "disable")
Call_CLIC_SOFTWARE_INT_SET ==
    DriverPendingOp("CLIC_SOFTWARE", CLIC_SOFTWARE_INT_SET(clicintip))
Call_CLIC_SOFTWARE_INT_CLEAR ==
    DriverPendingOp("CLIC_SOFTWARE", CLIC_SOFTWARE_INT_CLEAR(clicintip))

Driver ==
    \/ Call_SOFTWARE_INT_ENABLE
    \/ Call_SOFTWARE_INT_DISABLE
    \/ Call_TIMER_INT_ENABLE
    \/ Call_TIMER_INT_DISABLE
    \/ Call_EXTERNAL_INT_ENABLE
    \/ Call_EXTERNAL_INT_EDISABLE
    \/ Call_CLIC_SOFTWARE_INT_ENABLE
    \/ Call_CLIC_SOFTWARE_INT_DISABLE
    \/ Call_CLIC_SOFTWARE_INT_SET
    \/ Call_CLIC_SOFTWARE_INT_CLEAR

OpsNext ==
    \/ MainStep
    \/ HandlerStep
    \/ Dispatch
    \/ Env
    \/ Driver

\* the application is built with every source armed
OpsInit == Init /\ \A o \in Options \ {"NESTED"} : act[o]

OpsSpec == OpsInit /\ [][OpsNext]_vars

(***************************************************************************)
(* The default exception path                                              *)
(***************************************************************************)
\* MCAUSE_CODE(cause): cause & 0x3FF, the exception-code field of mcause
MCAUSE_CODE(cause) == cause.id % 1024

\* the address exceptions trap to: mtvec with the mode bits 5:0 cleared
TrapBase(v) == IF v < 0 THEN 0 ELSE (v \div 64) * 64

\* exception codes the environment raises: illegal instruction, misaligned
\* store
ExcCodes == {2, 6}

\* a synchronous exception of the running code: the hart traps to mtvec.base
SyncException(code) ==
    /\ pc.fn \notin {"default_exception_handler", "wild"}
    /\ mepc' = pc
    /\ mcause' = [intr |-> FALSE, id |-> code, mpil |-> mil, mpie |-> mie]
    /\ mtval' = IF code = 6 THEN 1 ELSE 0
    /\ mie' = FALSE
    /\ pc' = [fn |-> FnAt(TrapBase(mtvec)), at |-> "entry"]
    /\ int_pc' = IF pc.fn = "main" THEN pc ELSE int_pc
    /\ UNCHANGED <<act, fault, call, mil, stack, csrs, vt, clic, locals,
                   writes, runs, last_ie_op, ops>>

InDefault(l) == pc = [fn |-> "default_exception_handler", at |-> l]

\* uintptr_t mcause = read_csr(mcause)
default_exception_handler_L533 ==
    /\ InDefault("entry")
    /\ fault' = [fault EXCEPT !.mcause = mcause]
    /\ pc' = [pc EXCEPT !.at = "L534"]
    /\ UNCHANGED <<act, mtval, call, hw, csrs, vt, clic, locals, hist, ops>>

\* uintptr_t mepc = read_csr(mepc)
default_exception_handler_L534 ==
    /\ InDefault("L534")
    /\ fault' = [fault EXCEPT !.mepc = mepc]
    /\ pc' = [pc EXCEPT !.at = "L535"]
    /\ UNCHANGED <<act, mtval, call, hw, csrs, vt, clic, locals, hist, ops>>

\* uintptr_t mtval = read_csr(mtval)
default_exception_handler_L535 ==
    /\ InDefault("L535")
    /\ fault' = [fault EXCEPT !.mtval = mtval]
    /\ pc' = [pc EXCEPT !.at = "L536"]
    /\ UNCHANGED <<act, mtval, call, hw, csrs, vt, clic, locals, hist, ops>>

\* uintptr_t code = MCAUSE_CODE(mcause)
default_exception_handler_L536 ==
    /\ InDefault("L536")
    /\ fault' = [fault EXCEPT !.code = MCAUSE_CODE(fault.mcause)]
    /\ pc' = [pc EXCEPT !.at = "L538"]
    /\ UNCHANGED <<act, mtval, call, hw, csrs, vt, clic, locals, hist, ops>>

\* a variant of default_exception_handler_L538 that returns with mret
default_exception_handler_L538_Returns ==
    /\ InDefault("L538")
    /\ pc' = mepc
    /\ mie' = mcause.mpie
    /\ mil' = mcause.mpil
    /\ UNCHANGED <<act, aux, mepc, mcause, stack, csrs, vt, clic, locals, hist, ops>>

\* while (1);
default_exception_handler_L538 ==
    /\ InDefault("L538")
    /\ pc' = pc
    /\ UNCHANGED <<act, aux, hw, csrs, vt, clic, locals, hist, ops>>

DefaultHandlerStep ==
    \/ default_exception_handler_L533
    \/ default_exception_handler_L534
    \/ default_exception_handler_L535
    \/ default_exception_handler_L536
    \/ default_exception_handler_L538

\* an enable macro called from main's idle loop for a source the build has
\* not armed
UnroutedEnableOp(opt, id, ie) ==
    /\ At("L292")
    /\ ~act[opt]
    /\ ops < MaxOps
    /\ ops' = ops + 1
    /\ clicintie' = ie
    /\ writes' = Append(writes, Wr("clicintie", id, ie[id]))
    /\ last_ie_op' = [last_ie_op EXCEPT ![id] = "enable"]
    /\ UNCHANGED <<act, aux, pc, hw, csrs, vt, cliccfg_reg, clicintctl, clicintip,
                   msip, timer_expired, locals, runs, int_pc>>

Unrouted_TIMER_INT_ENABLE ==
    UnroutedEnableOp("TIMER", INT_ID_TIMER, TIMER_INT_ENABLE(clicintie))
Unrouted_EXTERNAL_INT_ENABLE ==
    UnroutedEnableOp("EXTERNAL", INT_ID_EXTERNAL, EXTERNAL_INT_ENABLE(clicintie))

TrapNext ==
    \/ MainStep
    \/ HandlerStep
    \/ Dispatch
    \/ Env
    \/ DefaultHandlerStep
    \/ \E code \in ExcCodes : SyncException(code)
    \/ Unrouted_TIMER_INT_ENABLE
    \/ Unrouted_EXTERNAL_INT_ENABLE

\* the program with synchronous exceptions and unrouted sources
TrapSpec == Init /\ [][TrapNext]_vars

(***************************************************************************)
(* The source-control operations on their own: calls applied to the CLIC   *)
(* registers as reset leaves them, with the hart masked and idle           *)
(***************************************************************************)
\* the sources main configures
CtlIds == {INT_ID_SOFTWARE, INT_ID_TIMER, INT_ID_EXTERNAL, INT_ID_CLIC_SOFTWARE, 16}

\* the data handed to write_byte for a control byte: values the implemented
\* bits encode, values they do not, and values wider than the byte
CtlValues == {0, 63, 100, 127, 191, 255, 256, 300, 511}

\* the call just made: the operation, the source, the data written, the
\* byte the write replaced and whether the source was enabled at the call
ApiCall(op, id, v, old) ==
    [op |-> op, id |-> id, v |-> v, old |-> old, enabled |-> Enabled(id)]

\* a macro call that writes the enable bytes
ApiEnableOp(name, id, ie, op) ==
    /\ ops < MaxOps
    /\ ops' = ops + 1
    /\ clicintie' = ie
    /\ writes' = Append(writes, Wr("clicintie", id, ie[id]))
    /\ last_ie_op' = [last_ie_op EXCEPT ![id] = op]
    /\ call' = ApiCall(name, id, IF op = "enable" THEN ENABLE ELSE DISABLE, clicintie[id])
    /\ UNCHANGED <<act, mtval, fault, pc, hw, csrs, vt, cliccfg_reg, clicintctl,
                   clicintip, msip, timer_expired, locals, runs, int_pc>>

\* a macro call that writes the pending bytes
ApiPendingOp(name, id, ip, v) ==
    /\ ops < MaxOps
    /\ ops' = ops + 1
    /\ clicintip' = ip
    /\ call' = ApiCall(name, id, v, clicintip[id])
    /\ UNCHANGED <<act, mtval, fault, pc, hw, csrs, vt, cliccfg_reg, clicintctl,
                   clicintie, msip, timer_expired, locals, hist>>

Api_SOFTWARE_INT_ENABLE ==
    ApiEnableOp("SOFTWARE_INT_ENABLE", INT_ID_SOFTWARE, SOFTWARE_INT_ENABLE(clicintie), "enable")
Api_SOFTWARE_INT_DISABLE ==
    ApiEnableOp("SOFTWARE_INT_DISABLE", INT_ID_SOFTWARE, SOFTWARE_INT_DISABLE(clicintie), "disable")
Api_TIMER_INT_ENABLE ==
    ApiEnableOp("TIMER_INT_ENABLE", INT_ID_TIMER, TIMER_INT_ENABLE(clicintie), "enable")
Api_TIMER_INT_DISABLE ==
    ApiEnableOp("TIMER_INT_DISABLE", INT_ID_TIMER, TIMER_INT_DISABLE(clicintie), "disable")
Api_EXTERNAL_INT_ENABLE ==
    ApiEnableOp("EXTERNAL_INT_ENABLE", INT_ID_EXTERNAL, EXTERNAL_INT_ENABLE(clicintie), "enable")
Api_EXTERNAL_INT_EDISABLE ==
    ApiEnableOp("EXTERNAL_INT_EDISABLE", INT_ID_EXTERNAL, EXTERNAL_INT_EDISABLE(clicintie), "disable")
Api_CLIC_SOFTWARE_INT_ENABLE ==
    ApiEnableOp("CLIC_SOFTWARE_INT_ENABLE", INT_ID_CLIC_SOFTWARE,
                CLIC_SOFTWARE_INT_ENABLE(clicintie), "enable")
Api_CLIC_SOFTWARE_INT_DISABLE ==
    ApiEnableOp("CLIC_SOFTWARE_INT_DISABLE", INT_ID_CLIC_SOFTWARE,
                CLIC_SOFTWARE_INT_DISABLE(clicintie), "disable")
Api_CLIC_SOFTWARE_INT_SET ==
    ApiPendingOp("CLIC_SOFTWARE_INT_SET", INT_ID_CLIC_SOFTWARE,
                 CLIC_SOFTWARE_INT_SET(clicintip), ENABLE)
Api_CLIC_SOFTWARE_INT_CLEAR ==
    ApiPendingOp("CLIC_SOFTWARE_INT_CLEAR", INT_ID_CLIC_SOFTWARE,
                 CLIC_SOFTWARE_INT_CLEAR(clicintip), DISABLE)

\* a variant of Api_set_level_priority that leaves the control byte of an
\* enabled source alone
Api_set_level_priority_Checked(id, v) ==
    /\ ops < MaxOps
    /\ ops' = ops + 1
    /\ clicintctl' = IF Enabled(id) THEN clicintctl ELSE ClicIntCtlWrite(clicintctl, id, v)
    /\ writes' = Append(writes, Wr("clicintctl", id, clicintctl'[id]))
    /\ call' = ApiCall("set_level_priority", id, v, clicintctl[id])
    /\ UNCHANGED <<act, mtval, fault, pc, hw, csrs, vt, cliccfg_reg, clicintie,
                   clicintip, msip, timer_expired, locals, runs, last_ie_op, int_pc>>
\* write_byte(HART0_CLICINTCFG_ADDR(id), v)
Api_set_level_priority(id, v) ==
    /\ ops < MaxOps
    /\ ops' = ops + 1
    /\ clicintctl' = ClicIntCtlWrite(clicintctl, id, v)
    /\ writes' = Append(writes, Wr("clicintctl", id, clicintctl'[id]))
    /\ call' = ApiCall("set_level_priority", id, v, clicintctl[id])
    /\ UNCHANGED <<act, mtval, fault, pc, hw, csrs, vt, cliccfg_reg, clicintie,
                   clicintip, msip, timer_expired, locals, runs, last_ie_op, int_pc>>

ApiNext ==
    \/ Api_SOFTWARE_INT_ENABLE
    \/ Api_SOFTWARE_INT_DISABLE
    \/ Api_TIMER_INT_ENABLE
    \/ Api_TIMER_INT_DISABLE
    \/ Api_EXTERNAL_INT_ENABLE
    \/ Api_EXTERNAL_INT_EDISABLE
    \/ Api_CLIC_SOFTWARE_INT_ENABLE
    \/ Api_CLIC_SOFTWARE_INT_DISABLE
    \/ Api_CLIC_SOFTWARE_INT_SET
    \/ Api_CLIC_SOFTWARE_INT_CLEAR
    \/ \E id \in CtlIds, v \in CtlValues : Api_set_level_priority(id, v)

\* the registers as reset leaves them, in the shipped kind of build, masked
ApiInit == Init /\ ~mie /\ \A o \in Options : act[o] = (o # "NESTED")

ApiSpec == ApiInit /\ [][ApiNext]_vars

(***************************************************************************)
(* The two encodings on their own: the trap entry for any placement of the *)
(* handler and the table, the global byte for any policy                   *)
(***************************************************************************)
MaxAligned == 4

\* the addresses the linker can give an aligned(64) object
AlignedAddrs == {HANDLER_ALIGN * k : k \in 1 .. MaxAligned}

\* lines 164-169 with the handler at base and the table at table
Enc_trap_entry(base, table) ==
    /\ call.op = "none"
    /\ mtvec' = MtvecValue(base, MTVEC_MODE_CLIC_VECTORED)
    /\ mtvt' = table
    /\ writes' = writes \o << Wr("mtvec", 0, mtvec'), Wr("mtvt", 0, mtvt') >>
    /\ call' = [op |-> "trap_entry", base |-> base, table |-> table]
    /\ UNCHANGED <<act, mtval, fault, pc, hw, vt, clic, locals, runs, last_ie_op,
                   int_pc, ops>>

\* lines 181-182 with the policy (nv, nl, nm)
Enc_configure(nv, nl, nm) ==
    /\ call.op = "trap_entry"
    /\ cliccfg' = CliccfgPack(nv, nl, nm)
    /\ cliccfg_reg' = cliccfg' % 256
    /\ writes' = Append(writes, Wr("cliccfg", 0, cliccfg_reg'))
    /\ call' = [op |-> "configure", nv |-> nv, nl |-> nl, nm |-> nm]
    /\ UNCHANGED <<act, mtval, fault, pc, hw, csrs, vt, clicintctl, clicintie,
                   clicintip, msip, timer_expired, i, clicintcfg, runs, last_ie_op,
                   int_pc, ops>>

EncNext ==
    \/ \E base \in AlignedAddrs, table \in AlignedAddrs : Enc_trap_entry(base, table)
    \/ \E nv \in 0 .. 1, nl \in 0 .. 15, nm \in 0 .. 3 : Enc_configure(nv, nl, nm)

EncSpec == ApiInit /\ [][EncNext]_vars

(***************************************************************************)
(* Properties                                                              *)
(***************************************************************************)
\* position of statement l in main
Pos(l) == IndexOf(l)

\* a write of register reg, entry idx precedes the k-th configuration write
WrittenBefore(k, reg, idx) ==
    \E j \in 1 .. (k - 1) : writes[j].reg = reg /\ writes[j].idx = idx

\* the value of the last write of register reg, entry idx before the k-th
\* configuration write (reset when there is none)
LastBefore(k, reg, idx, reset) ==
    LET js == {j \in 1 .. (k - 1) : writes[j].reg = reg /\ writes[j].idx = idx}
    IN  IF js = {} THEN reset
        ELSE writes[CHOOSE j \in js : \A m \in js : m <= j].val

\* a dispatch happens in this step
Dispatched == pc'.at = "entry" /\ pc' # pc

\* C1: whenever a source's enable bit is set, its vector-table slot holds the
\* address of an installed handler, never the default exception handler
C1_EnabledSourceHasHandler ==
    \A id \in Ids :
        Enabled(id) => /\ vt[id] # default_exception_handler
                       /\ FnAt(vt[id]) \in Preemptible

C1_Witness == Enabled(16) /\ Enabled(INT_ID_TIMER) /\ mie

\* C2 as stated: every configuration write happens while mstatus.MIE is clear
C2_EveryConfigWriteMasked == \A k \in DOMAIN writes : ~writes[k].mie

\* C2 as amended: every configuration write of main happens while
\* mstatus.MIE is clear, between interrupt_global_disable and
\* interrupt_global_enable, and no handler is dispatched in that window; the
\* only configuration write outside it is timer_handler clearing the enable
\* byte of source 7, made with mstatus.MIE set
C2_MainConfigWritesMasked ==
    /\ \A k \in DOMAIN writes : writes[k].fn = "main" => ~writes[k].mie
    /\ \A k \in DOMAIN writes :
          writes[k].fn # "main" =>
              writes[k] = [reg |-> "clicintie", idx |-> INT_ID_TIMER, val |-> DISABLE,
                           mie |-> TRUE, fn |-> "timer_handler"]
    /\ (pc.fn = "main" /\ Pos(pc.at) \in 2 .. Pos("L280")) => ~mie
    /\ pc.fn # "main" => Pos(int_pc.at) > Pos("L280")

C2_Witness ==
    /\ pc.fn = "main"
    /\ mie
    /\ \E k \in DOMAIN writes : writes[k].fn = "timer_handler"
    /\ \E k \in DOMAIN writes : writes[k].reg = "clicintie" /\ writes[k].fn = "main"

\* the handler address last stored into slot id
LastInstalled(id) == LastBefore(Len(writes) + 1, "vt", id, 0)

\* C3: a dispatch of source id enters exactly the handler installed for id,
\* never the default exception handler; as shipped, the only dispatch is
\* source 16 entering lc0_handler
C3_DispatchInvokesInstalled ==
    pc.at = "entry" =>
        /\ pc.fn = FnAt(LastInstalled(mcause.id))
        /\ pc.fn \in Preemptible
        /\ act = ShippedOptions => (mcause.id = 16 /\ pc.fn = "lc0_handler")

C3_Witness ==
    /\ act = ShippedOptions
    /\ pc = [fn |-> "lc0_handler", at |-> "entry"]
    /\ mcause.id = 16

\* reset_all has written the default handler into every slot before the
\* k-th configuration write
ResetAllBefore(k) ==
    \A c \in Ids :
        \E j \in 1 .. (k - 1) : writes[j] = [reg |-> "vt", idx |-> c,
                                             val |-> default_exception_handler,
                                             mie |-> writes[j].mie, fn |-> "main"]

\* C4 as stated: mtvec and mtvt are written only after reset_all has filled
\* every vector-table slot
C4_TrapEntryAfterResetAll ==
    \A k \in DOMAIN writes : writes[k].reg \in {"mtvec", "mtvt"} => ResetAllBefore(k)

\* C4 as amended: mtvec (default handler address | 3) and mtvt are both
\* written before reset_all writes its first vector-table slot
C4_TrapEntryBeforeResetAll ==
    /\ \A k \in DOMAIN writes :
          writes[k].reg = "vt" => /\ WrittenBefore(k, "mtvec", 0)
                                  /\ WrittenBefore(k, "mtvt", 0)
    /\ \A k \in DOMAIN writes :
          writes[k].reg \in {"mtvec", "mtvt"} => ~\E c \in Cells : WrittenBefore(k, "vt", c)
    /\ \A k \in DOMAIN writes :
          writes[k].reg = "mtvec" =>
              writes[k].val = BitOr(default_exception_handler, MTVEC_MODE_CLIC_VECTORED)

C4_Witness ==
    /\ pc = Main("L181")
    /\ mtvec # -1
    /\ mtvt # -1
    /\ ResetAllBefore(Len(writes) + 1)

\* C5: mtvec and mtvt are both programmed before the enable bit of any
\* source is set, in every build
C5_TrapEntryBeforeEnable ==
    /\ \A k \in DOMAIN writes :
          (writes[k].reg = "clicintie" /\ writes[k].val % 2 = 1) =>
              /\ WrittenBefore(k, "mtvec", 0)
              /\ WrittenBefore(k, "mtvt", 0)
    /\ (\E id \in Ids : Enabled(id)) =>
          /\ mtvec = BitOr(default_exception_handler, MTVEC_MODE_CLIC_VECTORED)
          /\ mtvt = mtvt_clic_vector_table

C5_Witness == pc = Main("L280") /\ Enabled(INT_ID_EXTERNAL) /\ Enabled(INT_ID_SOFTWARE)

\* the sources main enables in this build
ArmedIds ==
    {id \in Ids :
        \/ id = INT_ID_SOFTWARE /\ act["SOFTWARE"]
        \/ id = INT_ID_TIMER /\ act["TIMER"]
        \/ id = INT_ID_EXTERNAL /\ act["EXTERNAL"]
        \/ id = INT_ID_CLIC_SOFTWARE /\ act["CLIC_SOFTWARE"]
        \/ id = 16 /\ act["LOCAL_EXT"]}

\* C6: for every source main enables, the write of its control byte precedes
\* the write that sets its enable bit, and no control byte is written while
\* its source is enabled
C6_ControlBeforeEnable ==
    /\ \A k \in DOMAIN writes :
          (writes[k].reg = "clicintie" /\ writes[k].val % 2 = 1) =>
              /\ writes[k].idx \in ArmedIds
              /\ WrittenBefore(k, "clicintctl", writes[k].idx)
    /\ \A k \in DOMAIN writes :
          writes[k].reg = "clicintctl" =>
              LastBefore(k, "clicintie", writes[k].idx, 0) % 2 = 0
    /\ (pc.fn = "main" /\ Pos(pc.at) >= Pos("L280")) =>
          \A id \in ArmedIds : WrittenBefore(Len(writes) + 1, "clicintie", id)

C6_Witness ==
    /\ pc = Main("L280")
    /\ ArmedIds = {INT_ID_SOFTWARE, INT_ID_TIMER, INT_ID_EXTERNAL, INT_ID_CLIC_SOFTWARE, 16}
    /\ \A id \in ArmedIds : Enabled(id) /\ clicintctl[id] = 255

\* no handler has been installed yet: every slot write so far stored the
\* default handler
NoInstallYet ==
    \A k \in DOMAIN writes :
        writes[k].reg = "vt" => writes[k].val = default_exception_handler

\* C7: after reset_all and before any install every slot 0 .. SIZE-1 holds
\* the default exception handler, and no cell outside the table is written
C7_ResetAllFillsTable ==
    /\ (pc.fn = "main" /\ Pos(pc.at) > Pos("L173") /\ NoInstallYet) =>
          \A c \in Ids : vt[c] = default_exception_handler
    /\ vt[CLIC_VECTOR_TABLE_SIZE_MAX] = 0
    /\ \A k \in DOMAIN writes : writes[k].reg = "vt" => writes[k].idx \in Ids

C7_Witness ==
    /\ pc = Main("L181")
    /\ NoInstallYet
    /\ \A c \in Ids : vt[c] = default_exception_handler

\* the handler of software-triggered source id
SwHandler(id) ==
    IF id = INT_ID_SOFTWARE THEN "software_handler" ELSE "clic_software_handler"

\* the statement of main that raises the pending bit of source id
Trigger(id) == IF id = INT_ID_SOFTWARE THEN "L284" ELSE "L289"

\* the build arms exactly one source, a software-triggered one, at level
\* bits = 0
SingleSoftwareSource ==
    /\ ~act["NESTED"]
    /\ \E id \in SwSources : ArmedIds = {id}

\* with level bits = 0: a software-triggered source is dispatched at most
\* once; once main has raised its pending bit, either main still stands at
\* the very next statement with the interrupt about to be taken, or the
\* handler has run exactly once and the pending bit is clear; the pending
\* bit is clear when the handler returns
C8_Safety ==
    ~act["NESTED"] =>
        \A id \in SwSources \cap ArmedIds :
            /\ runs[id] <= 1
            /\ (pc.fn = "main" /\ Pos(pc.at) <= Pos(Trigger(id))) =>
                  runs[id] = 0 /\ ~Pending(id)
            /\ (pc.fn = "main" /\ Pos(pc.at) > Pos(Trigger(id))) =>
                  \/ runs[id] = 0 /\ Pending(id) /\ InterruptReady
                                  /\ pc = Main(After(Trigger(id)))
                  \/ runs[id] = 1 /\ ~Pending(id)
            /\ (pc.fn = SwHandler(id) /\ pc.at \in {"exit", "mret"}) =>
                  runs[id] = 1 /\ ~Pending(id)

\* C8: end to end for a software-triggered source (12 via its pending byte,
\* 3 via MSIP) with level bits = 0: the handler runs exactly once and leaves
\* the pending bit clear, the source is not dispatched again, main resumes
\* at the statement it was interrupted at, and main reaches the wfi loop
C8_SoftwareInterruptEndToEnd ==
    /\ []C8_Safety
    /\ [][(pc.fn # "main" /\ pc'.fn = "main") => pc' = int_pc]_vars
    /\ SingleSoftwareSource =>
          <>(/\ pc = Main("L294")
             /\ \A id \in SwSources \cap ArmedIds : runs[id] = 1 /\ ~Pending(id))

C8_Witness ==
    /\ pc = Main("L294")
    /\ ArmedIds = {INT_ID_CLIC_SOFTWARE}
    /\ ~act["NESTED"]
    /\ runs[INT_ID_CLIC_SOFTWARE] = 1
    /\ int_pc = Main("L292")
    /\ ~Pending(INT_ID_CLIC_SOFTWARE)

\* main's instruction stream advances in this step
MainProgress == pc.fn = "main" /\ pc'.fn = "main" /\ (pc' # pc \/ ops' # ops)

\* C9: a source whose last enable-byte operation is disable is never
\* dispatched, pending or not; once enable is written for a pending source
\* with mstatus.MIE set, an interrupt is taken before main advances
C9_DisableBlocksEnableDispatches ==
    /\ [][Dispatched => last_ie_op[mcause'.id] = "enable"]_vars
    /\ [](\A id \in Ids :
            (pc.fn = "main" /\ mie /\ last_ie_op[id] = "enable" /\ Pending(id))
                => InterruptReady)
    /\ [][(pc.fn = "main" /\ mie /\
           \E id \in Ids : last_ie_op[id] = "enable" /\ Pending(id))
              => ~MainProgress]_vars

\* source 7 was disabled by its handler while pending, the application
\* wrote enable again, and the timer handler is entered once more
C9_Witness ==
    /\ pc = [fn |-> "timer_handler", at |-> "entry"]
    /\ mcause.id = INT_ID_TIMER
    /\ timer_expired
    /\ \E j, k \in DOMAIN writes :
          /\ j < k
          /\ writes[j].reg = "clicintie" /\ writes[j].idx = INT_ID_TIMER
          /\ writes[j].val = DISABLE /\ writes[j].fn = "timer_handler"
          /\ writes[k].reg = "clicintie" /\ writes[k].idx = INT_ID_TIMER
          /\ writes[k].val = ENABLE /\ writes[k].fn = "main"

\* C10: when several enabled sources are pending at the same encoded level,
\* the dispatch takes the highest-numbered one
C10_HighestIdFirst ==
    [][Dispatched =>
         \A b \in Candidates : Level(b) = Level(mcause'.id) => b <= mcause'.id]_vars

C10_Witness ==
    /\ pc = [fn |-> "lc0_handler", at |-> "entry"]
    /\ mcause.id = 16
    /\ Enabled(INT_ID_EXTERNAL) /\ Pending(INT_ID_EXTERNAL)
    /\ Enabled(INT_ID_SOFTWARE) /\ Pending(INT_ID_SOFTWARE)
    /\ Level(INT_ID_EXTERNAL) = Level(16)

\* the system is in the default exception path
Trapped == pc.fn = "default_exception_handler"

\* C11: a dispatch through a slot that holds the default handler, and a
\* synchronous exception once mtvec is programmed, enter the default
\* exception handler; the handler reads mcause, mepc and mtval; once entered
\* the hart never leaves it: no return to main, no other handler
C11_DefaultPathTerminal ==
    /\ [][(Dispatched /\ mcause'.intr /\ mtvt = mtvt_clic_vector_table
           /\ vt[mcause'.id] = default_exception_handler) => Trapped']_vars
    /\ [][(Dispatched /\ ~mcause'.intr /\ mtvec # -1) => Trapped']_vars
    /\ [][Trapped => (Trapped' /\ ~mie')]_vars
    /\ [](InDefault("L538") =>
            fault = [mcause |-> mcause, mepc |-> mepc, mtval |-> mtval,
                     code |-> MCAUSE_CODE(mcause)])

C11_Witness ==
    /\ InDefault("L538")
    /\ fault.mcause.intr
    /\ fault.mcause.id = INT_ID_EXTERNAL
    /\ fault.mepc.fn = "main"
    /\ act["SOFTWARE"]
    /\ runs[INT_ID_SOFTWARE] = 1

\* timer_handler is about to return
TimerHandlerReturns == pc.fn = "timer_handler" /\ pc.at \in {"exit", "mret"}

\* C12 as stated: the timer's pending condition is clear when timer_handler
\* returns
C12_TimerPendingClearOnReturn == TimerHandlerReturns => ~Pending(INT_ID_TIMER)

\* C12 as amended: timer_handler does not re-arm the comparator; it clears
\* the enable byte of source 7, so the timer is still pending when the
\* handler returns and source 7 is not dispatched a second time
C12_TimerHandlerDisables ==
    /\ [](TimerHandlerReturns => (Pending(INT_ID_TIMER) /\ ~Enabled(INT_ID_TIMER)))
    /\ []((\E k \in DOMAIN writes : writes[k].fn = "timer_handler") =>
            (timer_expired /\ ~Enabled(INT_ID_TIMER)))
    /\ [][(Dispatched /\ mcause'.id = INT_ID_TIMER) =>
             ~\E k \in DOMAIN writes : writes[k].fn = "timer_handler"]_vars

C12_Witness ==
    /\ pc = [fn |-> "timer_handler", at |-> "mret"]
    /\ timer_expired
    /\ ~Enabled(INT_ID_TIMER)
    /\ mepc.fn = "main"

\* the writes of the global configuration byte so far
CfgWrites == {k \in DOMAIN writes : writes[k].reg = "cliccfg"}

\* main has finished its configuration sequence
ConfigDone == pc.fn # "main" \/ Pos(pc.at) >= Pos("L280")

\* C13 as stated: the configuration byte is written exactly once during the
\* configuration sequence, in every build
C13_CliccfgWrittenOnce ==
    /\ Cardinality(CfgWrites) <= 1
    /\ ConfigDone => Cardinality(CfgWrites) = 1

\* C13 as amended: the configuration byte is written once (value 0) in
\* builds without ACTIVATE_NESTED_INTERRUPT and twice in builds with it, the
\* second write storing the byte read back or-ed with the level-bit count
C13_CliccfgWrittenOnceOrTwice ==
    /\ ConfigDone => Cardinality(CfgWrites) = IF act["NESTED"] THEN 2 ELSE 1
    /\ \A k \in CfgWrites :
          /\ writes[k].fn = "main"
          /\ writes[k].val =
                IF \E j \in CfgWrites : j < k
                THEN BitOr(0, CLICCFG_NLBITS(METAL_SIFIVE_CLIC0_0_SIFIVE_NUMINTBITS))
                ELSE 0
    /\ ConfigDone =>
          cliccfg_reg = IF act["NESTED"]
                        THEN CLICCFG_NLBITS(METAL_SIFIVE_CLIC0_0_SIFIVE_NUMINTBITS)
                        ELSE 0

C13_Witness ==
    /\ pc = Main("L280")
    /\ act["NESTED"]
    /\ Cardinality(CfgWrites) = 2
    /\ NLBITS = METAL_SIFIVE_CLIC0_0_SIFIVE_NUMINTBITS

\* C14: the configuration byte is never written while a source is enabled:
\* every write of it, the read-modify-write of the nested build included,
\* precedes the first write that sets an enable bit
C14_CliccfgBeforeEnable ==
    /\ \A k \in CfgWrites :
          \A id \in Ids : LastBefore(k, "clicintie", id, 0) % 2 = 0
    /\ \A k \in DOMAIN writes :
          (writes[k].reg = "clicintie" /\ writes[k].val % 2 = 1) =>
              Cardinality({j \in CfgWrites : j < k}) = IF act["NESTED"] THEN 2 ELSE 1

C14_Witness ==
    /\ pc = Main("L280")
    /\ act["NESTED"]
    /\ Enabled(INT_ID_SOFTWARE)
    /\ Enabled(16)
    /\ Cardinality(CfgWrites) = 2


\* the values a control byte can hold: the implemented upper bits, ones below
CtlLegal(v) ==
    /\ v \in 0 .. 255
    /\ (v + 1) % Pow2(8 - METAL_SIFIVE_CLIC0_0_SIFIVE_NUMINTBITS) = 0

SetLevelCalled == call.op = "set_level_priority"

\* C15 as stated: a write of the control byte of a source whose enable bit
\* is set is rejected, the control byte of an enabled source does not change
C15_CtlWriteRejectedWhileEnabled ==
    (SetLevelCalled /\ call.enabled) => clicintctl[call.id] = call.old

\* C15: a write of a source's control byte is carried out whether or not the
\* source's enable bit is set: the byte holds the stored value afterwards,
\* the enable bit is as it was, and nothing records a rejection (the trap
\* record is untouched and the write is in the log like any other)
C15_CtlWriteUnconditional ==
    SetLevelCalled =>
        /\ clicintctl[call.id] = ClicIntCtlStore(call.v)
        /\ Enabled(call.id) = call.enabled
        /\ fault = NoFault
        /\ writes[Len(writes)] = Wr("clicintctl", call.id, ClicIntCtlStore(call.v))

C15_Witness ==
    /\ SetLevelCalled
    /\ call.enabled
    /\ clicintctl[call.id] # call.old

\* C16 as stated: set_level_priority(id, v) followed by a read gives v for
\* every legal v, and any other v is rejected, the byte staying as it was
C16_RoundTripOrRejected ==
    SetLevelCalled =>
        IF CtlLegal(call.v)
        THEN read_byte(clicintctl, call.id) = call.v
        ELSE read_byte(clicintctl, call.id) = call.old

\* C16: set_level_priority(id, v) followed by a read of the same control
\* byte gives v for every value the implemented bits encode; any other v
\* is not rejected: the byte reads back as v truncated to 8 bits with the
\* unimplemented low bits as ones
C16_RoundTripLegal ==
    SetLevelCalled =>
        /\ CtlLegal(call.v) => read_byte(clicintctl, call.id) = call.v
        /\ CtlLegal(read_byte(clicintctl, call.id))
        /\ read_byte(clicintctl, call.id) \div Pow2(8 - METAL_SIFIVE_CLIC0_0_SIFIVE_NUMINTBITS)
               = (call.v % 256) \div Pow2(8 - METAL_SIFIVE_CLIC0_0_SIFIVE_NUMINTBITS)

C16_Witness ==
    /\ SetLevelCalled
    /\ CtlLegal(call.v)
    /\ call.old # call.v
    /\ read_byte(clicintctl, call.id) = call.v
    /\ ops = MaxOps

\* the call just made repeats the one before it: same operation, same
\* source, same data
SameCallAgain ==
    /\ call.op # "none"
    /\ ops' = ops + 1
    /\ call'.op = call.op
    /\ call'.id = call.id
    /\ call'.v = call.v

\* C17: a source-control operation applied twice in a row with the same
\* arguments leaves the registers as the first application left them
C17_Idempotent ==
    [][SameCallAgain =>
          /\ clicintie' = clicintie
          /\ clicintip' = clicintip
          /\ clicintctl' = clicintctl]_vars

C17_Witness ==
    /\ ops = 2
    /\ call.op = "CLIC_SOFTWARE_INT_SET"
    /\ call.old = ENABLE
    /\ Pending(call.id)
    /\ ~Enabled(call.id)

\* the configuration stages a write belongs to
IsGlobalConfig(w) == w.reg = "cliccfg"
IsTrapEntry(w) == w.reg \in {"mtvec", "mtvt"}
IsTableFill(w) == w.reg = "vt" /\ w.val = default_exception_handler
IsSourceControl(w) ==
    \/ w.reg \in {"clicintctl", "clicintie"}
    \/ w.reg = "vt" /\ w.val # default_exception_handler

\* the stage of a write when Global Config comes first
StageAsStated(w) ==
    IF IsGlobalConfig(w) THEN 1
    ELSE IF IsTrapEntry(w) THEN 2
    ELSE IF IsTableFill(w) THEN 3
    ELSE 4

\* the stage of a write when Global Config comes third
StageInMain(w) ==
    IF IsTrapEntry(w) THEN 1
    ELSE IF IsTableFill(w) THEN 2
    ELSE IF IsGlobalConfig(w) THEN 3
    ELSE 4

\* main's configuration writes never go back to an earlier stage
StagesInOrder(Stage(_)) ==
    \A j, k \in DOMAIN writes :
        (j < k /\ writes[j].fn = "main" /\ writes[k].fn = "main") =>
            Stage(writes[j]) <= Stage(writes[k])

\* C18 as stated: cliccfg is written before mtvec/mtvt, which are written
\* before the vector table is filled, which precedes every per-source write
C18_GlobalConfigFirst == StagesInOrder(StageAsStated)

\* C18: main's configuration runs in the order Trap Entry, Vector Table,
\* Global Config, Source Control: mtvec and mtvt are written first, then
\* every slot of the vector table is filled, then cliccfg is written (once,
\* or twice with nesting), and only then the first per-source handler,
\* control or enable write is made
C18_ConfigOrder ==
    /\ StagesInOrder(StageInMain)
    /\ \A k \in DOMAIN writes :
          IsTableFill(writes[k]) =>
              WrittenBefore(k, "mtvec", 0) /\ WrittenBefore(k, "mtvt", 0)
    /\ \A k \in DOMAIN writes :
          IsGlobalConfig(writes[k]) => ResetAllBefore(k)
    /\ \A k \in DOMAIN writes :
          IsSourceControl(writes[k]) => WrittenBefore(k, "cliccfg", 0)

C18_Witness ==
    /\ pc = Main("L280")
    /\ act["NESTED"]
    /\ Enabled(INT_ID_SOFTWARE)
    /\ Enabled(16)
    /\ \E k \in DOMAIN writes : IsGlobalConfig(writes[k])

\* C19: for every flag in 0..1, level-bit count in 0..15 and mode-bit count
\* in 0..3 the byte written to cliccfg holds the flag in bit 0, the level-bit
\* count in bits 1-4 and the mode-bit count in bits 5-6 without overlap: it
\* fits in 0..127, each field is recovered from it, and the policy (0, 0, 0)
\* gives 0
C19_CliccfgPacking ==
    call.op = "configure" =>
        /\ cliccfg_reg = cliccfg
        /\ cliccfg_reg \in 0 .. 127
        /\ cliccfg_reg % 2 = call.nv
        /\ (cliccfg_reg \div 2) % 16 = call.nl
        /\ (cliccfg_reg \div 32) % 4 = call.nm
        /\ cliccfg_reg = call.nv + 2 * call.nl + 32 * call.nm
        /\ (call.nv = 0 /\ call.nl = 0 /\ call.nm = 0) => cliccfg_reg = 0

C19_Witness ==
    /\ call.op = "configure"
    /\ call.nv = 1
    /\ call.nl = 15
    /\ call.nm = 3
    /\ cliccfg_reg = 127

\* C20: with the handler 64-byte aligned, the value written to mtvec has
\* mode 3 (CLIC vectored) in bits 1:0, never a direct mode, and the handler
\* address unmodified in the remaining bits; the value written to mtvt is
\* the unmodified 64-byte aligned table base
C20_TrapVectorEncoding ==
    call.op = "trap_entry" =>
        /\ mtvec % 4 = MTVEC_MODE_CLIC_VECTORED
        /\ mtvec % 4 = 3
        /\ mtvec - (mtvec % 4) = call.base
        /\ call.base % HANDLER_ALIGN = 0
        /\ mtvt = call.table
        /\ mtvt % HANDLER_ALIGN = 0
        /\ TrapBase(mtvec) = call.base

C20_Witness ==
    /\ call.op = "trap_entry"
    /\ call.base = default_exception_handler
    /\ call.table = mtvt_clic_vector_table
    /\ mtvec = default_exception_handler + 3
    /\ mtvt = mtvt_clic_vector_table

\* the flat configuration: no level bits, every armed source's control byte
\* is 255
Flat ==
    /\ NLBITS = 0
    /\ \A id \in Ids : Enabled(id) => clicintctl[id] = 255

EnabledIds == {id \in Ids : Enabled(id)}

\* C22: main writes the enable, control and vector-slot entries only of the
\* sources whose ACTIVATE_* option is on; when main reaches
\* interrupt_global_enable the enabled sources are exactly the activated
\* ones (only source 16 as shipped), every other source's enable and control
\* bytes are as reset left them and every other slot of the vector table
\* holds the default exception handler
C22_ArmingFrame ==
    /\ \A k \in DOMAIN writes :
          (writes[k].fn = "main" /\ IsSourceControl(writes[k])) =>
              writes[k].idx \in ArmedIds
    /\ pc = Main("L280") =>
          /\ EnabledIds = ArmedIds
          /\ act = ShippedOptions => EnabledIds = {16}
          /\ \A id \in Ids \ ArmedIds :
                /\ clicintie[id] = 0
                /\ clicintctl[id] = ClicIntCtlStore(0)
                /\ vt[id] = default_exception_handler
          /\ \A id \in ArmedIds :
                /\ clicintctl[id] = 255
                /\ vt[id] # default_exception_handler

C22_Witness ==
    /\ pc = Main("L280")
    /\ act = ShippedOptions
    /\ EnabledIds = {16}
    /\ vt[16] = lc0_handler
    /\ vt[INT_ID_SOFTWARE] = default_exception_handler
====
